---- MODULE Spec2Model ----
(***************************************************************************)
(* A model of the streaming statistics engine of maths-stats-v3.go:        *)
(* DataStreamStats (running sum/count/min/max, two-heap median, ring       *)
(* buffer window for percentiles, cached snapshot) with its four mutexes,  *)
(* and of the single-mutex variant's direct heap-size rebalancing.         *)
(*                                                                         *)
(* Numbers.  Observations are small positive integers, for which float64   *)
(* addition and comparison are exact.  A float64 result is a record        *)
(* [inf, n, d]: inf = 1 / -1 is +Inf / -Inf, and otherwise the value is    *)
(* the fraction n/d in lowest terms, so a quotient such as sum/count or    *)
(* (a+b)/2 is kept exactly.  The one place where float64 rounding decides  *)
(* the result, math.Ceil((p/100) * float64(k)) in GetPercentile, is        *)
(* computed with IEEE-754 round-to-nearest (CeilOfProduct).                *)
(*                                                                         *)
(* Threads and locks.  Two threads share one engine.  A call is a sequence *)
(* of steps, one for each mutex it locks: the step is enabled when the     *)
(* mutex is free and covers the code up to the next Lock.  minMaxLock (in  *)
(* AddNumber) and cachedLock (in GetCachedStats) are held across steps,    *)
(* heapLock and percentileLock are locked and unlocked within one step.    *)
(*                                                                         *)
(* Panics.  A run-time panic (assignment to an entry of a nil map, index   *)
(* out of range) ends the call with the outcome "panic" after its deferred *)
(* Unlock calls have run.  Whether the caller recovers or the process      *)
(* stops is left open: a process that stops takes no further step.         *)
(***************************************************************************)
EXTENDS Integers, Sequences, FiniteSets

\* ---------------------------------------------------------------- bounds
\* Largest observation: observations are drawn from 1..MaxVal.
MaxVal == 3
\* Number of AddNumber calls a single caller issues (specification SpecSeq).
MaxAdds == 4
\* Number of AddNumber calls issued in the concurrent specification Spec.
MaxConcAdds == 2
\* Largest ring buffer capacity: NewDataStreamStats(c) for c in 1..MaxCap.
MaxCap == 2
\* Largest window of the percentile specification SpecPct.
MaxWindow == 25

Values == 1..MaxVal
Threads == {"t1", "t2"}
NoThread == "none"

\* ------------------------------------------------------------- float64
RECURSIVE GCD(_, _)
GCD(a, b) == IF b = 0 THEN a ELSE GCD(b, a % b)

Abs(x) == IF x < 0 THEN -x ELSE x

\* The float64 n/d (d > 0), in lowest terms.
Frac(n, d) ==
  LET g == GCD(Abs(n), d)
  IN  [inf |-> 0, n |-> n \div g, d |-> d \div g]

Num(x) == Frac(x, 1)
PosInf == [inf |-> 1, n |-> 0, d |-> 1]
NegInf == [inf |-> -1, n |-> 0, d |-> 1]
Zero == Num(0)

\* a < b on float64 values.
FLess(a, b) ==
  IF a.inf # 0 \/ b.inf # 0
    THEN a.inf < b.inf
    ELSE a.n * b.d < b.n * a.d

RECURSIVE Pow2(_)
Pow2(n) == IF n = 0 THEN 1 ELSE 2 * Pow2(n - 1)

\* 2^n mod m.
RECURSIVE PowMod2(_, _)
PowMod2(n, m) == IF n = 0 THEN 1 % m ELSE (2 * PowMod2(n - 1, m)) % m

\* floor(log2(n)) for n >= 1.
RECURSIVE FloorLog2(_)
FloorLog2(n) == IF n < 2 THEN 0 ELSE 1 + FloorLog2(n \div 2)

\* floor(log2(p/100)) for p >= 1: the binary exponent of the float64 p/100.
RECURSIVE NegExp(_, _)
NegExp(p, a) == IF p * Pow2(a) >= 100 THEN -a ELSE NegExp(p, a + 1)

ExpOfRank(p) == IF p >= 100 THEN FloorLog2(p \div 100) ELSE NegExp(p, 1)

\* ceil(p*k/100) in exact arithmetic.
ExactCeil(p, k) == (p * k + 99) \div 100

\* int(math.Ceil((p / 100) * float64(k))) for integers p >= 0, k >= 1, as
\* float64 computes it.  q = fl(p/100) has the 53-bit significand
\* m = round(p * 2^s / 100), s = 52 - ExpOfRank(p), so 100*m - p*2^s = e with
\* e = -r or 100 - r for r = (p * 2^s) mod 100.  The product q * k is exactly
\* p*k/100 + e*k/(100 * 2^s).  When p*k/100 is no integer it is at least 1/100
\* away from one and the rounding cannot change the ceiling.  When it is an
\* integer N, fl(q * k) exceeds N exactly when the excess e*k/(100 * 2^s) is
\* more than half a unit in the last place of N, 2^(FloorLog2(N) - 53), and
\* then the ceiling is N + 1.
CeilOfProduct(p, k) ==
  IF p = 0 THEN 0
  ELSE IF (p * k) % 100 # 0 THEN ExactCeil(p, k)
  ELSE
    LET N == (p * k) \div 100
        a == ExpOfRank(p)
        r == (p * PowMod2(52 - a, 100)) % 100
        e == IF r = 0 THEN 0 ELSE IF r > 50 THEN 100 - r ELSE -r
        x == FloorLog2(N) - a - 1
        roundsUp == IF x >= 0 THEN e * k > 100 * Pow2(x)
                              ELSE e * k * Pow2(-x) > 100
    IN  IF roundsUp THEN N + 1 ELSE N

\* ------------------------------------------------- MinHeap and MaxHeap
\* A heap is the slice itself, a sequence; index i of the code is h[i + 1].
HeapLess(kind, h, i, j) ==
  IF kind = "min" THEN h[i + 1] < h[j + 1] ELSE h[i + 1] > h[j + 1]

HeapSwap(h, i, j) ==
  [h EXCEPT ![i + 1] = h[j + 1], ![j + 1] = h[i + 1]]

\* container/heap's sift-up, driven by Less and Swap of the heap type.
RECURSIVE up(_, _, _)
up(kind, h, j) ==
  LET i == IF j = 0 THEN 0 ELSE (j - 1) \div 2
  IN  IF i = j \/ ~HeapLess(kind, h, j, i)
        THEN h
        ELSE up(kind, HeapSwap(h, i, j), i)

\* container/heap's sift-down over h[0..n-1].
RECURSIVE down(_, _, _, _)
down(kind, h, i, n) ==
  LET j1 == 2 * i + 1
      j2 == j1 + 1
      j == IF j2 < n /\ HeapLess(kind, h, j2, j1) THEN j2 ELSE j1
  IN  IF j1 >= n THEN h
      ELSE IF ~HeapLess(kind, h, j, i) THEN h
      ELSE down(kind, HeapSwap(h, i, j), j, n)

\* heap.Push(&h, x): the type's Push appends, then sift-up.
HeapPush(kind, h, x) == up(kind, Append(h, x), Len(h))

\* heap.Pop(&h): swap the root to the end, sift down, the type's Pop cuts it.
\* The Pop method of the heap type called directly instead of heap.Pop: the
\* last element of the slice, not the root.
HeapPopLast(kind, h) ==
  [val |-> h[Len(h)], heap |-> SubSeq(h, 1, Len(h) - 1)]

HeapPop(kind, h) ==
  LET n == Len(h) - 1
      d == down(kind, HeapSwap(h, 0, n), 0, n)
  IN  [val |-> d[n + 1], heap |-> SubSeq(d, 1, n)]

Peek(h) == h[1]

\* ------------------------------------------------------------ RingBuffer
NewRingBuffer(cap) ==
  [data |-> [i \in 1..cap |-> 0], head |-> 0, size |-> 0, cap |-> cap]

\* RingBufferAdd with the head stopping at the last slot instead of wrapping.
RingBufferAddNoWrap(rb, val) ==
  [rb EXCEPT !.data = [rb.data EXCEPT ![rb.head + 1] = val],
             !.head = IF rb.head + 1 < rb.cap THEN rb.head + 1 ELSE rb.head,
             !.size = IF rb.size < rb.cap THEN rb.size + 1 ELSE rb.size]

RingBufferAdd(rb, val) ==
  [rb EXCEPT !.data = [rb.data EXCEPT ![rb.head + 1] = val],
             !.head = (rb.head + 1) % rb.cap,
             !.size = IF rb.size < rb.cap THEN rb.size + 1 ELSE rb.size]

\* sort.Float64s: the ascending arrangement of s.
RECURSIVE InsertSorted(_, _)
InsertSorted(s, x) ==
  IF s = <<>> THEN <<x>>
  ELSE IF x <= Head(s) THEN <<x>> \o s
  ELSE <<Head(s)>> \o InsertSorted(Tail(s), x)

RECURSIVE SortFloat64s(_)
SortFloat64s(s) == IF s = <<>> THEN <<>> ELSE InsertSorted(SortFloat64s(Tail(s)), Head(s))

\* GetSorted with the copy sorted in descending order.
GetSortedDescending(rb) ==
  LET s == SortFloat64s(SubSeq(rb.data, 1, rb.size))
  IN  [i \in 1..Len(s) |-> s[Len(s) + 1 - i]]

GetSorted(rb) == SortFloat64s(SubSeq(rb.data, 1, rb.size))

\* ------------------------------------------------- map[int]float64
\* A Go map value: nil (the zero value of the type) or a set of <<key, value>>.
NilMap == [nil |-> TRUE, entries |-> {}]
\* make(map[int]float64)
MakeMap == [nil |-> FALSE, entries |-> {}]

\* m[k] = v: a run-time panic on a nil map.
MapAssign(m, k, v) ==
  IF m.nil
    THEN [panic |-> TRUE, map |-> m]
    ELSE [panic |-> FALSE,
          map |-> [m EXCEPT !.entries = {e \in @ : e[1] # k} \cup {<<k, v>>}]]

\* m[k]: the zero value when k is absent or m is nil.
MapGet(m, k) ==
  IF \E e \in m.entries : e[1] = k
    THEN (CHOOSE e \in m.entries : e[1] = k)[2]
    ELSE Zero

\* --------------------------------------------------------- DataStreamStats
\* The percentile ranks GetCachedStats stores.
CachedRanks == <<95, 99>>

\* The zero value of CachedStats: its percentile map is nil.
ZeroCachedStats == [mean |-> Zero, median |-> Zero, percentile |-> NilMap]

NewDataStreamStats(capacity) ==
  [totalSum |-> 0, count |-> 0, minVal |-> PosInf, maxVal |-> NegInf,
   lower |-> <<>>, upper |-> <<>>,
   recentData |-> NewRingBuffer(capacity),
   balanceCounter |-> 0,
   cached |-> ZeroCachedStats, cacheUpdated |-> FALSE,
   cachePercentile |-> MakeMap]

\* "Update basic stats" with totalSum = num for totalSum += num.
UpdateBasicStatsAssignSum(d, num) ==
  [d EXCEPT !.totalSum = num,
            !.count = @ + 1,
            !.minVal = IF FLess(Num(num), @) THEN Num(num) ELSE @,
            !.maxVal = IF FLess(@, Num(num)) THEN Num(num) ELSE @]

\* "Update basic stats" with the test of maxVal in the else branch of the
\* test of minVal.
UpdateBasicStatsElseIf(d, num) ==
  [d EXCEPT !.totalSum = @ + num,
            !.count = @ + 1,
            !.minVal = IF FLess(Num(num), @) THEN Num(num) ELSE @,
            !.maxVal = IF ~FLess(Num(num), d.minVal) /\ FLess(@, Num(num))
                         THEN Num(num) ELSE @]

\* AddNumber, "Update basic stats".
UpdateBasicStats(d, num) ==
  [d EXCEPT !.totalSum = @ + num,
            !.count = @ + 1,
            !.minVal = IF FLess(Num(num), @) THEN Num(num) ELSE @,
            !.maxVal = IF FLess(@, Num(num)) THEN Num(num) ELSE @]

balanceHeaps(d) ==
  IF d.balanceCounter > 1 THEN
    LET p == HeapPop("max", d.lower)
    IN  [d EXCEPT !.lower = p.heap,
                  !.upper = HeapPush("min", @, p.val),
                  !.balanceCounter = @ - 1]
  ELSE IF d.balanceCounter < -1 THEN
    LET p == HeapPop("min", d.upper)
    IN  [d EXCEPT !.upper = p.heap,
                  !.lower = HeapPush("max", @, p.val),
                  !.balanceCounter = @ + 1]
  ELSE d

\* AddNumber, "Maintain heaps": the insertion and the call of balanceHeaps.
MaintainHeaps(d, num) ==
  balanceHeaps(
    IF Len(d.lower) = 0 \/ num <= Peek(d.lower)
      THEN [d EXCEPT !.lower = HeapPush("max", @, num),
                     !.balanceCounter = @ + 1]
      ELSE [d EXCEPT !.upper = HeapPush("min", @, num),
                     !.balanceCounter = @ - 1])

\* AddNumber, "Add to recent data".
AddRecent(d, num) == [d EXCEPT !.recentData = RingBufferAdd(@, num)]

\* AddNumber, "Invalidate cached stats".
InvalidateCache(d) == [d EXCEPT !.cacheUpdated = FALSE]

\* GetCachedStats: the assignments to ds.cached and to ds.cacheUpdated.
StoreMean(d, v) == [d EXCEPT !.cached.mean = v]

\* StoreMedian with the validity flag set before the percentiles are stored.
StoreMedianMarkUpdated(d, v) ==
  [d EXCEPT !.cached.median = v, !.cacheUpdated = TRUE]

StoreMedian(d, v) == [d EXCEPT !.cached.median = v]

StorePercentiles(d, m) == [d EXCEPT !.cached.percentile = m]

MarkUpdated(d) == [d EXCEPT !.cacheUpdated = TRUE]

\* The outcome of a query: a float64, or a run-time panic.
Returns(v) == [panic |-> FALSE, val |-> v]
Panics == [panic |-> TRUE, val |-> Zero]

GetMean(d) == IF d.count = 0 THEN Zero ELSE Frac(d.totalSum, d.count)

GetMin(d) == d.minVal

GetMax(d) == d.maxVal

\* GetMedian without its test of ds.count.
GetMedianNoCountTest(d, c) ==
  IF Len(d.lower) > Len(d.upper) THEN Returns(Num(Peek(d.lower)))
  ELSE IF Len(d.lower) = 0 \/ Len(d.upper) = 0 THEN Panics
  ELSE Returns(Frac(Peek(d.lower) + Peek(d.upper), 2))

\* GetMedian with c the value its read of ds.count yields.  h[0] on an empty
\* heap is an index out of range.
GetMedian(d, c) ==
  IF c = 0 THEN Returns(Zero)
  ELSE IF Len(d.lower) > Len(d.upper) THEN Returns(Num(Peek(d.lower)))
  ELSE IF Len(d.lower) = 0 \/ Len(d.upper) = 0 THEN Panics
  ELSE Returns(Frac(Peek(d.lower) + Peek(d.upper), 2))

\* The index GetPercentile computes for rank p and a window of k values.
PercentileIndex(p, k) ==
  LET index == CeilOfProduct(p, k) - 1
  IN  IF index < 0 THEN 0 ELSE index

\* sorted[index] past the end of the slice is an index out of range.
GetPercentile(d, p) ==
  LET sorted == GetSorted(d.recentData)
      index == PercentileIndex(p, Len(sorted))
  IN  IF Len(sorted) = 0 THEN Returns(Zero)
      ELSE IF index >= Len(sorted) THEN Panics
      ELSE Returns(Num(sorted[index + 1]))

\* The engine after AddNumber(h[1]), ..., AddNumber(h[Len(h)]) run one after
\* the other on a new engine.
RECURSIVE Recorded(_, _)
Recorded(h, capacity) ==
  IF h = <<>> THEN NewDataStreamStats(capacity)
  ELSE LET num == h[Len(h)]
           d == Recorded(SubSeq(h, 1, Len(h) - 1), capacity)
       IN  AddRecent(MaintainHeaps(UpdateBasicStats(d, num), num), num)

\* ----------------------------------------- the single-mutex variant
\* NewDataStreamStats, AddNumber and GetMedian of src/unnamed/part_001: one
\* mutex, the heaps balanced by comparing their sizes, the whole history in
\* a sorted slice.
SingleMutexNew ==
  [totalSum |-> 0, count |-> 0, minVal |-> PosInf, maxVal |-> NegInf,
   lower |-> <<>>, upper |-> <<>>, sorted |-> <<>>]

SingleMutexBalance(d) ==
  IF Len(d.lower) > Len(d.upper) + 1 THEN
    LET p == HeapPop("max", d.lower)
    IN  [d EXCEPT !.lower = p.heap, !.upper = HeapPush("min", @, p.val)]
  ELSE IF Len(d.upper) > Len(d.lower) THEN
    LET p == HeapPop("min", d.upper)
    IN  [d EXCEPT !.upper = p.heap, !.lower = HeapPush("max", @, p.val)]
  ELSE d

SingleMutexAddNumber(d, num) ==
  LET stats == [d EXCEPT !.totalSum = @ + num,
                         !.count = @ + 1,
                         !.minVal = IF FLess(Num(num), @) THEN Num(num) ELSE @,
                         !.maxVal = IF FLess(@, Num(num)) THEN Num(num) ELSE @]
      pushed == IF Len(stats.lower) = 0 \/ num <= Peek(stats.lower)
                  THEN [stats EXCEPT !.lower = HeapPush("max", @, num)]
                  ELSE [stats EXCEPT !.upper = HeapPush("min", @, num)]
  IN  [SingleMutexBalance(pushed) EXCEPT !.sorted = InsertSorted(@, num)]

SingleMutexGetMedian(d) ==
  IF d.count = 0 THEN Returns(Zero)
  ELSE IF Len(d.lower) > Len(d.upper) THEN Returns(Num(Peek(d.lower)))
  ELSE IF Len(d.lower) = 0 \/ Len(d.upper) = 0 THEN Panics
  ELSE Returns(Frac(Peek(d.lower) + Peek(d.upper), 2))

\* The variant after AddNumber(h[1]), ..., AddNumber(h[Len(h)]).
RECURSIVE SingleMutexRecorded(_)
SingleMutexRecorded(h) ==
  IF h = <<>> THEN SingleMutexNew
  ELSE SingleMutexAddNumber(SingleMutexRecorded(SubSeq(h, 1, Len(h) - 1)),
                            h[Len(h)])

\* ------------------------------------------------------------------ state
VARIABLES
  ds,       \* the DataStreamStats: its fields other than the mutexes
  lock,     \* the four mutexes: the thread holding each, or NoThread
  pc,       \* each thread's position: "idle", or the lock its call waits for
  arg,      \* each thread's argument: num, the rank p, or the index of the rank
  ret,      \* the outcome of each thread's last call
  hist,     \* every value recorded, in the order of the aggregate's updates
  callers,  \* the threads that issue calls
  budget,   \* the AddNumber calls still to be issued
  ranks,    \* the ranks callers pass to GetPercentile
  since     \* since the last GetCachedStats call ended: "never" (there was
            \* none), "nothing", or "added" (an AddNumber call returned)

vars == <<ds, lock, pc, arg, ret, hist, callers, budget, ranks, since>>

Locks == {"minMaxLock", "heapLock", "percentileLock", "cachedLock"}

\* The ranks passed to GetPercentile by callers of the concurrent engine.
RanksAsked == {0, 50, 100, 101}

NoRet == [kind |-> "none", val |-> Zero, stats |-> ZeroCachedStats]
RetDone == [kind |-> "done", val |-> Zero, stats |-> ZeroCachedStats]
RetPanic == [kind |-> "panic", val |-> Zero, stats |-> ZeroCachedStats]
RetValue(v) == [kind |-> "value", val |-> v, stats |-> ZeroCachedStats]
RetStats(c) == [kind |-> "stats", val |-> Zero, stats |-> c]
RetOf(out) == IF out.panic THEN RetPanic ELSE RetValue(out.val)

Free(l) == lock[l] = NoThread

InitThreads ==
  /\ lock = [l \in Locks |-> NoThread]
  /\ pc = [t \in Threads |-> "idle"]
  /\ since = "never"
  /\ arg = [t \in Threads |-> 0]
  /\ ret = [t \in Threads |-> NoRet]

\* A fresh engine shared by all threads.
Init ==
  /\ \E c \in 1..MaxCap : ds = NewDataStreamStats(c)
  /\ InitThreads
  /\ hist = <<>>
  /\ callers = Threads
  /\ budget = MaxConcAdds
  /\ ranks = RanksAsked

\* A fresh engine with a single caller.
InitSeq ==
  /\ \E c \in 1..MaxCap : ds = NewDataStreamStats(c)
  /\ InitThreads
  /\ hist = <<>>
  /\ callers = {"t1"}
  /\ budget = MaxAdds
  /\ ranks = RanksAsked

Goto(t, where) == pc' = [pc EXCEPT ![t] = where]
Return(t, r) == /\ pc' = [pc EXCEPT ![t] = "idle"]
                /\ ret' = [ret EXCEPT ![t] = r]

\* ---------------------------------------------------------------- AddNumber
CallAddNumber(t, num) ==
  /\ t \in callers /\ pc[t] = "idle" /\ budget > 0
  /\ Goto(t, "add_stats")
  /\ arg' = [arg EXCEPT ![t] = num]
  /\ ret' = [ret EXCEPT ![t] = NoRet]
  /\ budget' = budget - 1
  /\ UNCHANGED <<ds, lock, hist, callers, ranks, since>>

\* AddNumber's first step without minMaxLock.Lock().
AddNumber_StatsNoLock(t) ==
  /\ pc[t] = "add_stats"
  /\ ds' = UpdateBasicStats(ds, arg[t])
  /\ hist' = Append(hist, arg[t])
  /\ Goto(t, "add_heaps")
  /\ UNCHANGED <<lock, arg, ret, callers, budget, ranks, since>>

\* minMaxLock.Lock(), held until the call returns; the basic statistics.
AddNumber_Stats(t) ==
  /\ pc[t] = "add_stats" /\ Free("minMaxLock")
  /\ lock' = [lock EXCEPT !["minMaxLock"] = t]
  /\ ds' = UpdateBasicStats(ds, arg[t])
  /\ hist' = Append(hist, arg[t])
  /\ Goto(t, "add_heaps")
  /\ UNCHANGED <<arg, ret, callers, budget, ranks, since>>

\* heapLock.Lock() ... heapLock.Unlock().
AddNumber_Heaps(t) ==
  /\ pc[t] = "add_heaps" /\ Free("heapLock")
  /\ ds' = MaintainHeaps(ds, arg[t])
  /\ Goto(t, "add_recent")
  /\ UNCHANGED <<lock, arg, ret, hist, callers, budget, ranks, since>>

\* percentileLock.Lock() ... percentileLock.Unlock().
AddNumber_Recent(t) ==
  /\ pc[t] = "add_recent" /\ Free("percentileLock")
  /\ ds' = AddRecent(ds, arg[t])
  /\ Goto(t, "add_cache")
  /\ UNCHANGED <<lock, arg, ret, hist, callers, budget, ranks, since>>

\* cachedLock.Lock() ... cachedLock.Unlock(), and the deferred
\* minMaxLock.Unlock() as the call returns.
AddNumber_Invalidate(t) ==
  /\ pc[t] = "add_cache" /\ Free("cachedLock")
  /\ ds' = InvalidateCache(ds)
  /\ lock' = [lock EXCEPT !["minMaxLock"] = NoThread]
  /\ Return(t, RetDone)
  /\ since' = IF since = "never" THEN "never" ELSE "added"
  /\ UNCHANGED <<arg, hist, callers, budget, ranks>>

\* ------------------------------------------------------------------ queries
CallQuery(t, q) ==
  /\ t \in callers /\ pc[t] = "idle"
  /\ Goto(t, q)
  /\ arg' = [arg EXCEPT ![t] = 0]
  /\ ret' = [ret EXCEPT ![t] = NoRet]
  /\ UNCHANGED <<ds, lock, hist, callers, budget, ranks, since>>

CallGetPercentile(t, p) ==
  /\ t \in callers /\ pc[t] = "idle"
  /\ Goto(t, "pct")
  /\ arg' = [arg EXCEPT ![t] = p]
  /\ ret' = [ret EXCEPT ![t] = NoRet]
  /\ UNCHANGED <<ds, lock, hist, callers, budget, ranks, since>>

DoGetMean(t) ==
  /\ pc[t] = "mean" /\ Free("minMaxLock")
  /\ Return(t, RetValue(GetMean(ds)))
  /\ UNCHANGED <<ds, lock, arg, hist, callers, budget, ranks, since>>

DoGetMin(t) ==
  /\ pc[t] = "min" /\ Free("minMaxLock")
  /\ Return(t, RetValue(GetMin(ds)))
  /\ UNCHANGED <<ds, lock, arg, hist, callers, budget, ranks, since>>

DoGetMax(t) ==
  /\ pc[t] = "max" /\ Free("minMaxLock")
  /\ Return(t, RetValue(GetMax(ds)))
  /\ UNCHANGED <<ds, lock, arg, hist, callers, budget, ranks, since>>

\* GetMedian reads ds.count under heapLock, while AddNumber writes it under
\* minMaxLock: a data race.  While an AddNumber has incremented count and not
\* yet taken heapLock, the read yields the old or the new value.
CountRead ==
  {ds.count} \cup
  {ds.count - 1 : t \in {u \in Threads : pc[u] = "add_heaps"}}

DoGetMedian(t) ==
  /\ pc[t] = "median" /\ Free("heapLock")
  /\ \E c \in CountRead : Return(t, RetOf(GetMedian(ds, c)))
  /\ UNCHANGED <<ds, lock, arg, hist, callers, budget, ranks, since>>

DoGetPercentile(t) ==
  /\ pc[t] = "pct" /\ Free("percentileLock")
  /\ Return(t, RetOf(GetPercentile(ds, arg[t])))
  /\ UNCHANGED <<ds, lock, arg, hist, callers, budget, ranks, since>>

\* ----------------------------------------------------------- GetCachedStats
CallGetCachedStats(t) ==
  /\ t \in callers /\ pc[t] = "idle"
  /\ Goto(t, "gc_lock")
  /\ arg' = [arg EXCEPT ![t] = 0]
  /\ ret' = [ret EXCEPT ![t] = NoRet]
  /\ UNCHANGED <<ds, lock, hist, callers, budget, ranks, since>>

\* cachedLock.Lock(), held until the call returns or panics; a valid cache
\* is returned at once.
GetCachedStats_Lock(t) ==
  /\ pc[t] = "gc_lock" /\ Free("cachedLock")
  /\ IF ds.cacheUpdated
       THEN /\ Return(t, RetStats(ds.cached))
            /\ since' = "nothing"
            /\ UNCHANGED lock
       ELSE /\ lock' = [lock EXCEPT !["cachedLock"] = t]
            /\ Goto(t, "gc_mean")
            /\ UNCHANGED <<ret, since>>
  /\ UNCHANGED <<ds, arg, hist, callers, budget, ranks>>

\* ds.cached.mean = ds.GetMean()
GetCachedStats_Mean(t) ==
  /\ pc[t] = "gc_mean" /\ Free("minMaxLock")
  /\ ds' = StoreMean(ds, GetMean(ds))
  /\ Goto(t, "gc_median")
  /\ UNCHANGED <<lock, arg, ret, hist, callers, budget, ranks, since>>

\* ds.cached.median = ds.GetMedian(); a panic unwinds through the deferred
\* cachedLock.Unlock().
GetCachedStats_Median(t) ==
  /\ pc[t] = "gc_median" /\ Free("heapLock")
  /\ \E c \in CountRead :
       LET out == GetMedian(ds, c)
       IN  IF out.panic
             THEN /\ lock' = [lock EXCEPT !["cachedLock"] = NoThread]
                  /\ Return(t, RetPanic)
                  /\ since' = "nothing"
                  /\ UNCHANGED <<ds, arg>>
             ELSE /\ ds' = StoreMedian(ds, out.val)
                  /\ Goto(t, "gc_pct")
                  /\ arg' = [arg EXCEPT ![t] = 1]
                  /\ UNCHANGED <<lock, ret, since>>
  /\ UNCHANGED <<hist, callers, budget, ranks>>

\* ds.cached.percentile[r] = ds.GetPercentile(r) for the next rank r of
\* CachedRanks; after the last one, cacheUpdated = true and the return.
GetCachedStats_Percentile(t) ==
  /\ pc[t] = "gc_pct" /\ Free("percentileLock")
  /\ LET r == CachedRanks[arg[t]]
         out == GetPercentile(ds, r)
         put == MapAssign(ds.cached.percentile, r, out.val)
         stored == StorePercentiles(ds, put.map)
         valid == MarkUpdated(stored)
     IN  IF out.panic \/ put.panic
           THEN /\ lock' = [lock EXCEPT !["cachedLock"] = NoThread]
                /\ Return(t, RetPanic)
                /\ since' = "nothing"
                /\ UNCHANGED <<ds, arg>>
           ELSE IF arg[t] < Len(CachedRanks)
             THEN /\ ds' = stored
                  /\ arg' = [arg EXCEPT ![t] = @ + 1]
                  /\ UNCHANGED <<lock, pc, ret, since>>
             ELSE /\ ds' = valid
                  /\ lock' = [lock EXCEPT !["cachedLock"] = NoThread]
                  /\ Return(t, RetStats(valid.cached))
                  /\ since' = "nothing"
                  /\ UNCHANGED arg
  /\ UNCHANGED <<hist, callers, budget, ranks>>

\* ------------------------------------------------------------ specification
Next ==
  \E t \in Threads :
    \/ \E num \in Values : CallAddNumber(t, num)
    \/ AddNumber_Stats(t)
    \/ AddNumber_Heaps(t)
    \/ AddNumber_Recent(t)
    \/ AddNumber_Invalidate(t)
    \/ \E q \in {"mean", "min", "max", "median"} : CallQuery(t, q)
    \/ \E p \in ranks : CallGetPercentile(t, p)
    \/ DoGetMean(t)
    \/ DoGetMin(t)
    \/ DoGetMax(t)
    \/ DoGetMedian(t)
    \/ DoGetPercentile(t)
    \/ CallGetCachedStats(t)
    \/ GetCachedStats_Lock(t)
    \/ GetCachedStats_Mean(t)
    \/ GetCachedStats_Median(t)
    \/ GetCachedStats_Percentile(t)

Spec == Init /\ [][Next]_vars

SpecSeq == InitSeq /\ [][Next]_vars

\* GetPercentile as a function of the rank and the window size: a single
\* caller records 1, 2, 3, ... into an engine of capacity MaxWindow, so that
\* the value returned tells the index, and asks for every whole rank in
\* (0, 100] at every window size.
InitPct ==
  /\ ds = NewDataStreamStats(MaxWindow)
  /\ InitThreads
  /\ hist = <<>>
  /\ callers = {"t1"}
  /\ budget = MaxWindow
  /\ ranks = 1..100

NextPct ==
  \/ CallAddNumber("t1", Len(hist) + 1)
  \/ AddNumber_Stats("t1")
  \/ AddNumber_Heaps("t1")
  \/ AddNumber_Recent("t1")
  \/ AddNumber_Invalidate("t1")
  \/ \E p \in ranks : CallGetPercentile("t1", p)
  \/ DoGetPercentile("t1")

SpecPct == InitPct /\ [][NextPct]_vars

\* ------------------------------------------------------------ the claims
AllIdle == \A t \in Threads : pc[t] = "idle"

\* The median of the values of h as a full sort gives it.
TrueMedian(h) ==
  LET sorted == SortFloat64s(h)
      n == Len(sorted)
  IN  IF n % 2 = 1
        THEN Num(sorted[(n + 1) \div 2])
        ELSE Frac(sorted[n \div 2] + sorted[n \div 2 + 1], 2)

\* C1: with a single caller, after every prefix of the recorded sequence
\* GetMedian returns the true median of all values recorded so far.
C1_MedianIsTrueMedian ==
  (AllIdle /\ hist # <<>>) =>
    GetMedian(ds, ds.count) = Returns(TrueMedian(hist))

\* C2: after every AddNumber call has returned, the sizes of the two heaps
\* differ by at most 1.
C2_HeapSizesBalanced ==
  AllIdle => Abs(Len(ds.lower) - Len(ds.upper)) <= 1

\* The ascending window of capacity cap over the recorded values h: its last
\* min(cap, Len(h)) values.
WindowOf(h, cap) ==
  LET k == IF Len(h) < cap THEN Len(h) ELSE cap
  IN  SortFloat64s(SubSeq(h, Len(h) - k + 1, Len(h)))

\* The number of observations each sub-structure reflects.
InHeaps == Len(ds.lower) + Len(ds.upper)
WindowReflects(n) ==
  GetSorted(ds.recentData) = WindowOf(SubSeq(hist, 1, n), ds.recentData.cap)

\* C3: AddNumber is atomic as seen by queries: whenever the locks of two
\* sub-structures are both free, so that a query can read either, the two
\* reflect the same observations.
C3_AddNumberAtomic ==
  /\ (Free("minMaxLock") /\ Free("heapLock")) => InHeaps = ds.count
  /\ (Free("heapLock") /\ Free("percentileLock")) => WindowReflects(InHeaps)
  /\ (Free("minMaxLock") /\ Free("percentileLock")) => WindowReflects(ds.count)

\* The lock the call of thread t waits for at its position.
WaitsFor(t) ==
  CASE pc[t] \in {"add_stats", "mean", "min", "max", "gc_mean"} -> "minMaxLock"
    [] pc[t] \in {"add_heaps", "median", "gc_median"} -> "heapLock"
    [] pc[t] \in {"add_recent", "pct", "gc_pct"} -> "percentileLock"
    [] pc[t] \in {"add_cache", "gc_lock"} -> "cachedLock"

\* C4: no deadlock: no two threads each hold a lock while waiting for the
\* lock the other holds.
C4_NoDeadlock ==
  ~ \E t1, t2 \in Threads :
      /\ t1 # t2
      /\ pc[t1] # "idle" /\ pc[t2] # "idle"
      /\ lock[WaitsFor(t1)] = t2
      /\ lock[WaitsFor(t2)] = t1

\* Thread t's GetCachedStats call, having found the cache not valid, ends in
\* this step.
RecomputeEnds(t) == pc[t] \in {"gc_median", "gc_pct"} /\ pc'[t] = "idle"

\* C5: a GetCachedStats call on a cache that is not valid completes without
\* failure: it stores the current mean, median and percentiles, sets the
\* validity flag and returns the stored values.
C5_RecomputeCompletes ==
  [][\A t \in Threads :
       RecomputeEnds(t) =>
         /\ ret'[t].kind = "stats"
         /\ ret'[t].stats = ds'.cached
         /\ ds'.cacheUpdated
         /\ ds'.cached.mean = GetMean(ds')
         /\ Returns(ds'.cached.median) = GetMedian(ds', ds'.count)
         /\ \A i \in 1..Len(CachedRanks) :
              Returns(MapGet(ds'.cached.percentile, CachedRanks[i]))
                = GetPercentile(ds', CachedRanks[i])]_vars

\* Thread t's GetCachedStats call ends in this step.
SnapshotEnds(t) == pc[t] \in {"gc_lock", "gc_median", "gc_pct"} /\ pc'[t] = "idle"

\* C6: once an AddNumber call has returned and no GetCachedStats has run
\* since, the validity flag is false, and in GetCachedStats; AddNumber(x);
\* GetCachedStats the second call returns a snapshot whose mean and median
\* are those of the values recorded so far, x included.
C6_CacheReflectsNewValue ==
  [][/\ (since' = "added" /\ AllIdle') => ~ds'.cacheUpdated
     /\ \A t \in Threads :
          (SnapshotEnds(t) /\ since = "added") =>
            /\ ret'[t].kind = "stats"
            /\ ret'[t].stats.mean = GetMean(ds')
            /\ Returns(ret'[t].stats.median) = GetMedian(ds', ds'.count)]_vars

\* No AddNumber call is between its first update and its return.
NoAddNumberRunning ==
  \A t \in Threads : pc[t] \notin {"add_heaps", "add_recent", "add_cache"}

\* The cached values are the current statistics.
CacheFresh ==
  /\ ds.cached.mean = GetMean(ds)
  /\ Returns(ds.cached.median) = GetMedian(ds, ds.count)
  /\ \A i \in 1..Len(CachedRanks) :
       Returns(MapGet(ds.cached.percentile, CachedRanks[i]))
         = GetPercentile(ds, CachedRanks[i])

C8_MedianNeverPeeksEmpty ==
  [][\A t \in Threads :
       (pc[t] \in {"median", "gc_median"} /\ pc'[t] = "idle")
         => ret'[t].kind # "panic"]_vars

RECURSIVE SeqMax(_)
SeqMax(h) ==
  IF Len(h) = 1 THEN h[1]
  ELSE LET m == SeqMax(Tail(h)) IN IF h[1] > m THEN h[1] ELSE m

\* The last min(cap, Len(h)) values of h, in the order recorded.
MostRecent(h, cap) ==
  SubSeq(h, (IF Len(h) < cap THEN 0 ELSE Len(h) - cap) + 1, Len(h))

\* Every recorded value has reached the ring buffer.
WindowComplete ==
  \A t \in Threads : pc[t] \notin {"add_heaps", "add_recent"}

\* C9: the window holds exactly the min(capacity, n) most recently recorded
\* values, and GetPercentile(100) is the largest of them.
C9_WindowBounded ==
  WindowComplete =>
    /\ WindowReflects(Len(hist))
    /\ hist # <<>> =>
         GetPercentile(ds, 100)
           = Returns(Num(SeqMax(MostRecent(hist, ds.recentData.cap))))

\* C9's case: more values than the capacity were recorded and the largest
\* one was evicted.
C9_LargestEvicted ==
  /\ AllIdle
  /\ Len(hist) > ds.recentData.cap
  /\ FLess(GetPercentile(ds, 100).val, GetMax(ds))

\* C10: for a rank p in (0, 100] and a window of k > 0 values, GetPercentile
\* returns the element of rank ceil(p*k/100) of the ascending window.
C10_NearestRank ==
  [][\A t \in Threads :
       (pc[t] = "pct" /\ pc'[t] = "idle" /\ arg[t] \in 1..100
          /\ ds.recentData.size > 0) =>
         LET sorted == GetSorted(ds.recentData)
             rank == ExactCeil(arg[t], Len(sorted))
         IN  /\ rank \in 1..Len(sorted)
             /\ ret'[t] = RetValue(Num(sorted[rank]))]_vars

\* C11: a rank p <= 0 or p > 100 is rejected: GetPercentile fails fast, in
\* the same way whatever the window holds, and returns no window value.
C11_InvalidRankRejected ==
  [][\A t \in Threads :
       (pc[t] = "pct" /\ pc'[t] = "idle" /\ arg[t] \notin 1..100)
         => ret'[t].kind = "panic"]_vars

\* AddNumber has never been called.
NeverAdded == hist = <<>> /\ \A t \in Threads : pc[t] # "add_stats"

\* The answer of query q on an engine that holds no value.
EmptyAnswer(q) ==
  CASE q \in {"mean", "median", "pct"} -> Zero
    [] q = "min" -> PosInf
    [] q = "max" -> NegInf

\* C12: on an engine on which AddNumber was never called, GetMean, GetMedian
\* and GetPercentile(p), 0 < p <= 100, return 0, GetMin returns +Inf and
\* GetMax -Inf, and none of them changes the engine.
C12_EmptyStateQueries ==
  [][\A t \in Threads :
       (/\ NeverAdded
        /\ pc[t] \in {"mean", "median", "min", "max", "pct"}
        /\ pc[t] = "pct" => arg[t] \in 1..100
        /\ pc'[t] = "idle") =>
         /\ ret'[t] = RetValue(EmptyAnswer(pc[t]))
         /\ \A p \in 1..100 : GetPercentile(ds, p) = Returns(Zero)
         /\ ds' = ds /\ lock' = lock]_vars

\* C12's case: a query returned on an engine that never recorded a value
\* (GetMin's +Inf is returned by no other call).
C12_EmptyQueryReturned ==
  /\ NeverAdded
  /\ \E t \in Threads : ret[t] = RetValue(PosInf)

RECURSIVE SeqSum(_)
SeqSum(h) == IF h = <<>> THEN 0 ELSE h[1] + SeqSum(Tail(h))

RECURSIVE SeqMin(_)
SeqMin(h) ==
  IF Len(h) = 1 THEN h[1]
  ELSE LET m == SeqMin(Tail(h)) IN IF h[1] < m THEN h[1] ELSE m

\* C13: after any non-empty sequence of AddNumber calls totalSum is the sum
\* and count the number of the recorded values, and GetMean is their
\* arithmetic mean, a function of the values and not of their order (here:
\* the mean of the values taken in sorted order).
C13_MeanIsArithmeticMean ==
  /\ ds.totalSum = SeqSum(hist)
  /\ ds.count = Len(hist)
  /\ hist # <<>> =>
       GetMean(ds) = Frac(SeqSum(SortFloat64s(hist)), Len(hist))

\* C13's case: values recorded out of order whose mean is none of them.
C13_UnsortedRecorded ==
  /\ AllIdle
  /\ Len(hist) >= 2
  /\ hist[1] > hist[2]
  /\ GetMean(ds).d # 1

FLeq(a, b) == ~FLess(b, a)

\* C14: after any non-empty sequence of AddNumber calls GetMin is the
\* smallest and GetMax the largest value ever recorded, retained in the
\* window or not, so GetMin <= v <= GetMax for every recorded v.
C14_ExtremaOfAllRecorded ==
  hist # <<>> =>
    /\ GetMin(ds) = Num(SeqMin(hist))
    /\ GetMax(ds) = Num(SeqMax(hist))
    /\ \A i \in 1..Len(hist) :
         FLeq(GetMin(ds), Num(hist[i])) /\ FLeq(Num(hist[i]), GetMax(ds))

\* C14's case: the window has lost both the smallest and the largest value.
C14_BothExtremaEvicted ==
  /\ AllIdle
  /\ Len(hist) > ds.recentData.cap
  /\ FLess(GetMin(ds), GetPercentile(ds, 1).val)
  /\ FLess(GetPercentile(ds, 100).val, GetMax(ds))

\* The last call to return was an AddNumber: the window is as that call
\* left it.
WindowSettled == \A t \in callers : pc[t] = "idle" /\ ret[t] = RetDone

\* C15: for a fixed window and ranks 0 < p1 <= p2 <= 100,
\* GetPercentile(p1) <= GetPercentile(p2).
C15_PercentileMonotone ==
  WindowSettled =>
    \A p1, p2 \in 1..100 :
      p1 <= p2 => FLeq(GetPercentile(ds, p1).val, GetPercentile(ds, p2).val)

\* C15's case: a window in which two ranks select different values.
C15_RanksDiffer ==
  /\ WindowSettled
  /\ FLess(GetPercentile(ds, 1).val, GetPercentile(ds, 100).val)

\* C16: GetCachedStats called while the cache is valid, that is with no
\* AddNumber since the last recomputation, returns the stored values, takes
\* no lock beyond cachedLock (released as it returns) and changes no field.
C16_CacheHitChangesNothing ==
  [][\A t \in Threads :
       (since = "nothing" /\ pc[t] = "gc_lock" /\ pc'[t] # "gc_lock") =>
         /\ pc'[t] = "idle"
         /\ ret'[t] = RetStats(ds.cached)
         /\ ds' = ds /\ lock' = lock]_vars

\* C17: after every AddNumber every value of lower is <= every value of
\* upper, and the heaps hold together exactly the values recorded so far:
\* len(lower) + len(upper) = count, none lost or duplicated by rebalancing.
C17_HeapPartition ==
  NoAddNumberRunning =>
    /\ \A i \in 1..Len(ds.lower) : \A j \in 1..Len(ds.upper) :
         ds.lower[i] <= ds.upper[j]
    /\ SortFloat64s(ds.lower \o ds.upper) = SortFloat64s(hist)
    /\ InHeaps = ds.count

\* C17's case: values recorded in descending order all enter lower, so
\* upper is filled by rebalancing alone.
C17_Rebalanced ==
  /\ AllIdle
  /\ Len(hist) >= 3
  /\ hist[1] > hist[2] /\ hist[2] > hist[3]
  /\ Len(ds.upper) >= 1

\* C18: the counter rebalancing agrees with the size comparison of the
\* single-mutex variant: after every AddNumber of the same sequence both
\* hold heaps of the same sizes and GetMedian returns the same in both.
C18_SameAsSizeComparison ==
  NoAddNumberRunning =>
    LET v == SingleMutexRecorded(hist)
    IN  /\ Len(ds.lower) = Len(v.lower)
        /\ Len(ds.upper) = Len(v.upper)
        /\ GetMedian(ds, ds.count) = SingleMutexGetMedian(v)

\* The mean of the values of h, 0 for none.
MeanOf(h) == IF h = <<>> THEN Zero ELSE Frac(SeqSum(h), Len(h))

\* C19: the values a recomputation of GetCachedStats stores are computed
\* from one set of recorded observations: once the mean and the median are
\* stored, some prefix of the recorded values has that mean and that median.
C19_SnapshotConsistent ==
  \A t \in Threads :
    pc[t] = "gc_pct" =>
      \E n \in 0..Len(hist) :
        LET seen == SubSeq(hist, 1, n)
        IN  /\ ds.cached.mean = MeanOf(seen)
            /\ Returns(ds.cached.median) =
                 GetMedian(Recorded(seen, ds.recentData.cap), n)

\* Every AddNumber call made has returned.
AllAddsReturned ==
  \A t \in Threads :
    pc[t] \notin {"add_stats", "add_heaps", "add_recent", "add_cache"}

\* C20: concurrent AddNumber calls exclude each other over their whole body
\* and lose no update: once N calls have all returned count = N, totalSum
\* is the sum of the N values, len(lower) + len(upper) = N, and heaps and
\* ring buffer are those of the calls run one by one in the order in which
\* the aggregate was updated.
C20_AddNumberSerialised ==
  /\ Cardinality({t \in Threads :
                    pc[t] \in {"add_heaps", "add_recent", "add_cache"}}) <= 1
  /\ AllAddsReturned =>
       LET serial == Recorded(hist, ds.recentData.cap)
       IN  /\ ds.count = MaxConcAdds - budget
           /\ ds.count = Len(hist)
           /\ ds.totalSum = SeqSum(hist)
           /\ InHeaps = ds.count
           /\ ds.lower = serial.lower /\ ds.upper = serial.upper
           /\ ds.balanceCounter = serial.balanceCounter
           /\ ds.recentData = serial.recentData

\* C20's case: both threads have recorded a value and returned.
C20_BothThreadsRecorded ==
  /\ AllIdle
  /\ \A t \in Threads : ret[t] = RetDone
  /\ Len(hist) >= 2
  /\ hist[1] # hist[2]

====
